---- MODULE Spec2Model ----
(***************************************************************************)
(* Edit model of the timeline editor (stores/projectStore.ts), the pure    *)
(* slice time algebra (utils/sliceUtils.ts) and the timeline handlers that *)
(* call the store (timeline/SliceItem.tsx, Timeline.tsx, LayoutTrack.tsx). *)
(*                                                                         *)
(* Units.  Source times (sourceStartMs, sourceEndMs) are whole             *)
(* milliseconds.  Output times (slice durations, split times, layout       *)
(* boundaries) are counted in half-milliseconds: with timeScale drawn from *)
(* TimeScales = {1, 2} every quotient (end - start) / timeScale is a whole *)
(* number of half-milliseconds, so the model computes exactly what the     *)
(* floating point code computes on these inputs.                           *)
(*                                                                         *)
(* Array positions are 0-based as in the source; Pos(i) converts to the    *)
(* 1-based position of a TLA+ sequence.                                    *)
(***************************************************************************)
EXTENDS Integers, Sequences, FiniteSets, TLC

VARIABLES
    project,          \* "null" | "loaded"          (ProjectState.project)
    scenes,           \* project.scenes: sequence of scene records
    activeSceneIndex, \* ProjectState.activeSceneIndex
    autoSaveTimeout,  \* "null" | "pending"        (module-level timer handle)
    nextId,           \* next fresh id (generateSliceId / generateLayoutId)
    opCount,          \* history: number of applied (not refused) calls per operation
    currentTimeMs,    \* PlaybackState.currentTimeMs, output time in half-ms
    totalDurationMs,  \* PlaybackState.totalDurationMs, in half-ms
    isPlaying,        \* PlaybackState.isPlaying
    videoTime,        \* videoRef.current.currentTime, source time in half-ms
    args,             \* arguments of a call of a pure function
    result,           \* its return value, NoResult before the call
    webcamTime,       \* currentTime of the webcam video element, in half-ms
    micTime,          \* micAudioRef.current.currentTime, in half-ms
    micDuration,      \* duration of the microphone audio, 0 before its metadata loads
    micAudioOffset,   \* EditorView state micAudioOffset, in half-ms
    seekedPending,    \* the video element has a seek whose "seeked" event is not yet handled
    smoother,         \* position held by smootherRef.current
    sliceAdvanced,    \* history: playback advanced to the next slice and the smoother was not reset since
    selectedSliceId,  \* EditorState.selectedSliceId, Null or <<id>>
    selectedLayoutId, \* EditorState.selectedLayoutId, Null or <<id>>
    projectPath,      \* "null" | "path"            (ProjectState.projectPath)
    timers,           \* ids of the auto-save timers that are scheduled and have not fired
    cleared,          \* history: ids of the timers cleared before they fired
    tasks,            \* auto-save callbacks that await a backend call
    invoked,          \* the invoke() calls issued to the backend, in order
    cache,            \* WaveformState.cache: path -> has data
    loading,          \* WaveformState.loading: path -> BOOLEAN (undefined is false)
    errors,           \* WaveformState.errors: path -> "undefined" | "null" | "error"
    inflight          \* number of get_waveform requests awaiting the backend, by path

projectVars == <<project, scenes, activeSceneIndex, autoSaveTimeout, nextId, opCount,
                 projectPath, timers, cleared>>
playbackVars == <<currentTimeMs, totalDurationMs, isPlaying, videoTime>>
callVars == <<args, result>>
mediaVars == <<webcamTime, micTime, micDuration, micAudioOffset, seekedPending,
               smoother, sliceAdvanced>>
saveVars == <<tasks, invoked>>
waveformVars == <<cache, loading, errors, inflight>>
selectionVars == <<selectedSliceId, selectedLayoutId>>
storeVars == <<selectedSliceId, selectedLayoutId, tasks, invoked, cache, loading, errors,
               inflight>>

vars == <<project, scenes, activeSceneIndex, autoSaveTimeout, nextId, opCount,
          currentTimeMs, totalDurationMs, isPlaying, videoTime, args, result,
          webcamTime, micTime, micDuration, micAudioOffset, seekedPending,
          smoother, sliceAdvanced, selectedSliceId, selectedLayoutId, projectPath,
          timers, cleared,
          tasks, invoked, cache, loading, errors, inflight>>

----------------------------------------------------------------------------
(* Program constants *)

minSplitDuration == 100
layoutMinSplitDuration == 100
SLICE_MIN_DURATION_MS == 100
KEY_TRIM_STEP_MS == 100
layoutMinDuration == 100
SLICE_TRIM_HANDLE_WIDTH == 8
ZOOM_MAX == 4
MIN_SLICE_MS == 100

(* Bounds of the model *)

MaxSplits == 2
MaxRemoves == 2
MaxTrims == 1
MaxReorders == 1
MaxLayoutEdits == 3
MaxCallSlices == 2
MaxPlaybackEdits == 2
MaxEvents == 3

(* Inputs *)

RecordingDurations == {1000}
SceneIndexes == {0, 1}
TimeScales == {1, 2}
Tracks == {"screen", "camera"}
\* split times in half-ms: 100 ms, 480.5 ms, 600 ms, 1000 ms
SplitTimes == {200, 961, 1200, 2000}
\* mouse drag distances of a trim handle, in ms of output time
DragDeltasMs == {-250, 250}
\* mouse drag distances of a layout boundary, in half-ms of output time
LayoutDragDeltas == {-600, 600}
\* split times of a layout, in half-ms: 100 ms, 500 ms
LayoutSplitTimes == {200, 1000}
\* durations of the recording handed to initializeFromRecording, short ones included
InitDurations == RecordingDurations \cup {50, 100}
\* seek targets before the callers clamp them, in half-ms: 0, 800 and 1000 ms
SeekTimes == {0, 1600, 2000}
\* progress of the video between two timeupdate events, in half-ms
VideoAdvances == {200}
\* frames per second handed to stepFrame
FrameRates == {10}
\* layouts handed to addLayout: [startTime, endTime) in half-ms
NewLayoutRanges == {<<2000, 2400>>, <<400, 1000>>}

Ops == {"initializeFromRecording", "splitAllTracksAt", "removeSlice",
        "updateSlice", "reorderSlices", "addLayout", "updateLayout",
        "removeLayout", "splitLayout"}

----------------------------------------------------------------------------
(* Helpers for 0-based arrays *)

NoArgs == <<>>
NoResult == <<>>

Pos(i) == i + 1

Min(S) == CHOOSE x \in S : \A y \in S : x <= y

\* Array.prototype.findIndex((s) => s.id === id): 0-based, -1 when absent
findIndex(items, id) ==
    LET hits == {i \in 1..Len(items) : items[i].id = id}
    IN  IF hits = {} THEN -1 ELSE Min(hits) - 1

\* Array.prototype.splice(i, 1) on a copy, i 0-based and in range
spliceOut(items, i) ==
    SubSeq(items, 1, Pos(i) - 1) \o SubSeq(items, Pos(i) + 1, Len(items))

\* Array.prototype.splice(i, 0, x) on a copy, 0 <= i <= length
spliceIn(items, i, x) ==
    SubSeq(items, 1, Pos(i) - 1) \o <<x>> \o SubSeq(items, Pos(i), Len(items))

\* Math.round(n / 2): the nearest integer, halves rounded towards +infinity
MathRoundHalf(n) == (n + 1) \div 2

Max2(a, b) == IF a >= b THEN a ELSE b
Min2(a, b) == IF a <= b THEN a ELSE b

----------------------------------------------------------------------------
(* utils/sliceUtils.ts *)

createDefaultSlice(id, durationMs) ==
    [id |-> id, sourceStartMs |-> 0, sourceEndMs |-> durationMs, timeScale |-> 1]

\* output duration in half-ms
calculateSliceDuration(slice) ==
    (2 * (slice.sourceEndMs - slice.sourceStartMs)) \div slice.timeScale

\* output start (half-ms) of the slice at 0-based position index
RECURSIVE calculateSliceOutputStart(_, _)
calculateSliceOutputStart(slices, index) ==
    IF index <= 0 THEN 0
    ELSE calculateSliceOutputStart(slices, index - 1)
         + calculateSliceDuration(slices[Pos(index - 1)])

calculateTotalDuration(slices) == calculateSliceOutputStart(slices, Len(slices))

isValidSlice(slice, minDurationMs) ==
    /\ slice.sourceStartMs >= 0
    /\ slice.sourceEndMs > slice.sourceStartMs
    /\ slice.sourceEndMs - slice.sourceStartMs >= minDurationMs
    /\ slice.timeScale > 0

\* outputTimeToSourceFrom with the slice test "<=" in place of "<"
RECURSIVE outputTimeToSourceFromInclusive(_, _, _, _)
outputTimeToSourceFromInclusive(slices, outputTimeMs, i, accumulatedOutput) ==
    IF i >= Len(slices)
    THEN IF Len(slices) > 0
         THEN [sliceIndex |-> Len(slices) - 1,
               sourceTimeMs |-> 2 * slices[Len(slices)].sourceEndMs]
         ELSE [sliceIndex |-> -1, sourceTimeMs |-> 0]
    ELSE LET slice == slices[Pos(i)]
             outputDuration == calculateSliceDuration(slice)
         IN  IF outputTimeMs <= accumulatedOutput + outputDuration
             THEN [sliceIndex |-> i,
                   sourceTimeMs |-> 2 * slice.sourceStartMs
                       + (outputTimeMs - accumulatedOutput) * slice.timeScale]
             ELSE outputTimeToSourceFromInclusive(slices, outputTimeMs, i + 1,
                                                  accumulatedOutput + outputDuration)

\* the loop of outputTimeToSource from 0-based position i with the output
\* time accumulated so far; source times are returned in half-ms
RECURSIVE outputTimeToSourceFrom(_, _, _, _)
outputTimeToSourceFrom(slices, outputTimeMs, i, accumulatedOutput) ==
    IF i >= Len(slices)
    THEN IF Len(slices) > 0
         THEN [sliceIndex |-> Len(slices) - 1,
               sourceTimeMs |-> 2 * slices[Len(slices)].sourceEndMs]
         ELSE [sliceIndex |-> -1, sourceTimeMs |-> 0]
    ELSE LET slice == slices[Pos(i)]
             outputDuration == calculateSliceDuration(slice)
         IN  IF outputTimeMs < accumulatedOutput + outputDuration
             THEN [sliceIndex |-> i,
                   sourceTimeMs |-> 2 * slice.sourceStartMs
                       + (outputTimeMs - accumulatedOutput) * slice.timeScale]
             ELSE outputTimeToSourceFrom(slices, outputTimeMs, i + 1,
                                         accumulatedOutput + outputDuration)

outputTimeToSource(slices, outputTimeMs) ==
    outputTimeToSourceFrom(slices, outputTimeMs, 0, 0)

\* sourceTimeToOutput with the division by timeScale left out
sourceTimeToOutputUnscaled(slices, sliceIndex, sourceTimeMs) ==
    IF sliceIndex < 0 \/ sliceIndex >= Len(slices) THEN 0
    ELSE calculateSliceOutputStart(slices, sliceIndex)
         + (sourceTimeMs - 2 * slices[Pos(sliceIndex)].sourceStartMs)

\* sourceTimeMs in half-ms; the quotient is exact for the source times drawn
sourceTimeToOutput(slices, sliceIndex, sourceTimeMs) ==
    IF sliceIndex < 0 \/ sliceIndex >= Len(slices) THEN 0
    ELSE calculateSliceOutputStart(slices, sliceIndex)
         + (sourceTimeMs - 2 * slices[Pos(sliceIndex)].sourceStartMs)
               \div slices[Pos(sliceIndex)].timeScale

----------------------------------------------------------------------------
(* stores/projectStore.ts *)

validScene(sceneIndex) ==
    project = "loaded" /\ sceneIndex >= 0 /\ sceneIndex < Len(scenes)

getActiveScene ==
    IF validScene(activeSceneIndex) THEN <<scenes[Pos(activeSceneIndex)]>> ELSE <<>>

getScreenSlices == IF getActiveScene = <<>> THEN <<>> ELSE getActiveScene[1].screenSlices
getCameraSlices == IF getActiveScene = <<>> THEN <<>> ELSE getActiveScene[1].cameraSlices
getLayouts == IF getActiveScene = <<>> THEN <<>> ELSE getActiveScene[1].layouts

getTrackSlices(scene, track) ==
    IF track = "screen" THEN scene.screenSlices ELSE scene.cameraSlices

withTrackSlices(scene, track, newSlices) ==
    IF track = "screen" THEN [scene EXCEPT !.screenSlices = newSlices]
    ELSE [scene EXCEPT !.cameraSlices = newSlices]

(* Recording playback utilities: time lookup in the recorded event streams *)

\* the while loop of binarySearchTime with "<" in place of "<="
RECURSIVE binarySearchLoopStrict(_, _, _, _)
binarySearchLoopStrict(events, timeMs, left, right) ==
    IF left < right
    THEN LET mid == (left + right + 1) \div 2
         IN  IF events[Pos(mid)].processTimeMs < timeMs
             THEN binarySearchLoopStrict(events, timeMs, mid, right)
             ELSE binarySearchLoopStrict(events, timeMs, left, mid - 1)
    ELSE left

\* the while loop of binarySearchTime; left and right are 0-based
RECURSIVE binarySearchLoop(_, _, _, _)
binarySearchLoop(events, timeMs, left, right) ==
    IF left < right
    THEN LET mid == (left + right + 1) \div 2
         IN  IF events[Pos(mid)].processTimeMs <= timeMs
             THEN binarySearchLoop(events, timeMs, mid, right)
             ELSE binarySearchLoop(events, timeMs, left, mid - 1)
    ELSE left

binarySearchTime(events, timeMs) ==
    IF Len(events) = 0 THEN -1
    ELSE IF timeMs < events[1].processTimeMs THEN -1
    ELSE IF timeMs >= events[Len(events)].processTimeMs THEN Len(events) - 1
    ELSE binarySearchLoop(events, timeMs, 0, Len(events) - 1)

\* null is the empty sequence, an event e is <<e>>
findCursorAtTime(moves, timeMs) ==
    LET index == binarySearchTime(moves, timeMs)
    IN  IF index >= 0 THEN <<moves[Pos(index)]>> ELSE <<>>

\* the for loop of findClicksInRange from 0-based position i
RECURSIVE findClicksFrom(_, _, _, _, _)
findClicksFrom(clicks, startTimeMs, endTimeMs, i, results) ==
    IF i >= Len(clicks) THEN results
    ELSE LET click == clicks[Pos(i)]
         IN  IF click.processTimeMs > endTimeMs THEN results
             ELSE findClicksFrom(clicks, startTimeMs, endTimeMs, i + 1,
                     IF click.processTimeMs >= startTimeMs
                     THEN Append(results, click) ELSE results)

findClicksInRange(clicks, startTimeMs, endTimeMs) ==
    IF Len(clicks) = 0 THEN <<>>
    ELSE LET startIndex == binarySearchTime(clicks, startTimeMs)
             start == Max2(0, startIndex)
         IN  findClicksFrom(clicks, startTimeMs, endTimeMs, start, <<>>)

\* findCursorAtTimeInterpolated: null is the empty sequence; positions have
\* one coordinate, the other is treated alike
findCursorAtTimeInterpolated(moves, timeMs) ==
    IF Len(moves) = 0 THEN <<>>
    ELSE LET index == binarySearchTime(moves, timeMs)
         IN  IF index < 0 THEN << [x |-> moves[1].x] >>
             ELSE LET current == moves[Pos(index)]
                  IN  IF index >= Len(moves) - 1 THEN << [x |-> current.x] >>
                      ELSE LET next == moves[Pos(index + 1)]
                               timeDelta == next.processTimeMs - current.processTimeMs
                           IN  IF timeDelta <= 0 THEN << [x |-> current.x] >>
                               ELSE << [x |-> current.x +
                                          ((next.x - current.x) * (timeMs - current.processTimeMs))
                                             \div timeDelta] >>

----------------------------------------------------------------------------
(* components/editor/EditorView.tsx and WebcamOverlay.tsx: the media       *)
(* elements and the effects that run after a render                        *)

Abs(x) == IF x < 0 THEN -x ELSE x

\* recordingBundle.mouseMoves of the loaded recording, processTimeMs in
\* half-ms: the first sample is taken 200 ms into the recording
mouseMoves == << [processTimeMs |-> 400, x |-> 100],
                 [processTimeMs |-> 1200, x |-> 500] >>

\* duration of the recorded video in half-ms
videoDurationMs == 2 * (CHOOSE d \in RecordingDurations : TRUE)

\* the element keeps currentTime within [0, duration]
videoClamp(t) == Max2(0, Min2(t, videoDurationMs))

\* the audio element keeps currentTime within [0, duration]
audioClamp(t) == Max2(0, Min2(t, micDuration))

\* useMemo: the source time of the playhead, from the screen slices
sourceTimeOf(slices, outputTimeMs) ==
    IF Len(slices) = 0 THEN outputTimeMs
    ELSE outputTimeToSource(slices, outputTimeMs).sourceTimeMs

sourceTimeMs == sourceTimeOf(getScreenSlices, currentTimeMs)

\* smootherRef.current.reset(cursorAtTime.x, cursorAtTime.y) under
\* "if (cursorAtTime)"
smootherReset(sm, cursorAtTime) ==
    IF cursorAtTime # <<>> THEN [x |-> cursorAtTime[1].x] ELSE sm

\* smootherRef.current.update(raw, dt): the spring moves the position
\* towards the raw sample and settles on it
smootherUpdate(sm, raw) ==
    [x |-> IF Abs(raw.x - sm.x) > 200 THEN sm.x + (raw.x - sm.x) \div 2 ELSE raw.x]

\* syncAudio with the audio placed at the video time itself
syncAudioNoOffset(vt, mt) ==
    IF micDuration > 0 /\ Abs(mt - vt) > 40 THEN audioClamp(vt) ELSE mt

\* syncAudio: the new currentTime of the microphone audio for video time vt
syncAudio(vt, mt) ==
    LET targetTime == Max2(0, vt - micAudioOffset)
    IN  IF micDuration > 0 /\ Abs(mt - targetTime) > 40
        THEN audioClamp(targetTime) ELSE mt

\* The effects of EditorView and WebcamOverlay that run after a handler has
\* left the output time ct, the playing flag, the element times vt (video),
\* mt (microphone), wt (webcam), the pending seek sk and the smoother sm;
\* the scenes of the next state are already set.
\*   setTotalDuration when the slices change;
\*   updateCursorForTime(sourceTimeMs, true) while paused;
\*   the video and audio seek to sourceTimeMs when more than 100 ms away;
\*   the smoother reset when playback starts;
\*   the webcam seek to the sourceTimeMs prop when more than 100 ms away.
renderEffects(ct, playing, vt, mt, wt, sk, sm, adv) ==
    LET slices1 == getScreenSlices'
        src1 == sourceTimeOf(slices1, ct)
        srcChanged == src1 # sourceTimeMs
        slicesChanged == slices1 # getScreenSlices
        cursorEffect == ~playing /\ (srcChanged \/ isPlaying)
        sm1 == IF cursorEffect
               THEN smootherReset(sm, findCursorAtTimeInterpolated(mouseMoves, src1))
               ELSE sm
        videoSync == /\ Len(slices1) > 0
                     /\ srcChanged \/ slicesChanged
                     /\ Abs(vt - src1) > 200
        vt1 == IF videoSync THEN videoClamp(src1) ELSE vt
        started == playing /\ ~isPlaying
        initialCursor == findCursorAtTime(mouseMoves, vt1)
    IN  /\ currentTimeMs' = ct
        /\ isPlaying' = playing
        /\ totalDurationMs' = IF Len(slices1) > 0
                              THEN calculateTotalDuration(slices1)
                              ELSE totalDurationMs
        /\ videoTime' = vt1
        /\ micTime' = IF videoSync /\ micDuration > 0 THEN audioClamp(src1) ELSE mt
        /\ seekedPending' = (sk \/ videoSync)
        /\ webcamTime' = IF srcChanged /\ Abs(wt - src1) > 200
                         THEN videoClamp(src1) ELSE wt
        /\ smoother' = IF started THEN smootherReset(sm1, initialCursor) ELSE sm1
        /\ sliceAdvanced' = IF cursorEffect \/ (started /\ initialCursor # <<>>)
                            THEN FALSE ELSE adv
        /\ UNCHANGED <<micDuration, micAudioOffset>>

\* a store update that changes the scenes and nothing of the playback
slicesEffect ==
    renderEffects(currentTimeMs, isPlaying, videoTime, micTime, webcamTime,
                  seekedPending, smoother, sliceAdvanced)

\* audio paths of the recording bundle: microphone and system audio
AudioPaths == {"mic", "system"}

\* the state of the media elements and of the stores after mount; the
\* smoother is placed by updateCursorForTime(0, true) when the bundle loads
auxInit ==
    /\ webcamTime = 0
    /\ micTime = 0
    /\ micDuration = 0
    /\ micAudioOffset = 0
    /\ seekedPending = FALSE
    /\ smoother = [x |-> mouseMoves[1].x]
    /\ sliceAdvanced = FALSE
    /\ selectedSliceId = <<>>
    /\ selectedLayoutId = <<>>
    /\ projectPath = "null"
    /\ timers = {}
    /\ cleared = {}
    /\ tasks = {}
    /\ invoked = <<>>
    /\ cache = [p \in AudioPaths |-> FALSE]
    /\ loading = [p \in AudioPaths |-> FALSE]
    /\ errors = [p \in AudioPaths |-> "undefined"]
    /\ inflight = [p \in AudioPaths |-> 0]

----------------------------------------------------------------------------
(* stores/projectStore.ts: edits *)

\* number of triggerAutoSave calls so far; the timer scheduled by the n-th
\* call has id n, so a non-null autoSaveTimeout is the handle of timer
\* "version"
version ==
    opCount["initializeFromRecording"] + opCount["splitAllTracksAt"]
    + opCount["removeSlice"] + opCount["updateSlice"] + opCount["reorderSlices"]
    + opCount["addLayout"] + opCount["updateLayout"] + opCount["removeLayout"]
    + opCount["splitLayout"]

\* triggerAutoSave without the clearTimeout
triggerAutoSaveNoClear ==
    /\ autoSaveTimeout' = "pending"
    /\ timers' = timers \cup {version + 1}
    /\ UNCHANGED cleared

\* triggerAutoSave: clearTimeout(autoSaveTimeout), then setTimeout
triggerAutoSave ==
    /\ autoSaveTimeout' = "pending"
    /\ timers' = (IF autoSaveTimeout # "null" THEN timers \ {version} ELSE timers)
                    \cup {version + 1}
    /\ cleared' = IF autoSaveTimeout # "null" /\ version \in timers
                  THEN cleared \cup {version} ELSE cleared

\* set({ project: { ...project, scenes: newScenes } }); triggerAutoSave(get)
commit(sceneIndex, newScene, op) ==
    /\ scenes' = [scenes EXCEPT ![Pos(sceneIndex)] = newScene]
    /\ triggerAutoSave
    /\ opCount' = [opCount EXCEPT ![op] = @ + 1]
    /\ UNCHANGED <<project, activeSceneIndex, projectPath>>
    /\ slicesEffect
    /\ UNCHANGED <<callVars, storeVars>>

initializeFromRecording(durationMs) ==
    IF project = "loaded" /\ Len(scenes) > 0
    THEN UNCHANGED vars
    ELSE /\ project' = "loaded"
         /\ scenes' = << [screenSlices |-> <<createDefaultSlice(nextId, durationMs)>>,
                          cameraSlices |-> <<createDefaultSlice(nextId + 1, durationMs)>>,
                          layouts |-> << [id |-> nextId + 2, startTime |-> 0,
                                          endTime |-> 2 * durationMs,
                                          type |-> "screen-with-camera"] >>] >>
         /\ activeSceneIndex' = 0
         /\ nextId' = nextId + 3
         /\ triggerAutoSave
         /\ opCount' = [opCount EXCEPT !["initializeFromRecording"] = @ + 1]
         /\ UNCHANGED projectPath
         /\ slicesEffect
         /\ UNCHANGED <<callVars, storeVars>>

\* updates is one field of Partial<Slice> with its new value
updateSlice(sceneIndex, track, sliceId, field, value) ==
    IF ~validScene(sceneIndex) THEN UNCHANGED vars
    ELSE LET scene == scenes[Pos(sceneIndex)]
             slices == getTrackSlices(scene, track)
             sliceIndex == findIndex(slices, sliceId)
         IN  IF sliceIndex = -1 THEN UNCHANGED vars
             ELSE /\ commit(sceneIndex,
                            withTrackSlices(scene, track,
                                [slices EXCEPT ![Pos(sliceIndex)][field] = value]),
                            "updateSlice")
                  /\ UNCHANGED nextId

\* removeSliceScene with the linked deletion left out: only the screen track is cut
removeSliceSceneScreenOnly(scene, sliceId) ==
    LET inScreen == findIndex(scene.screenSlices, sliceId)
        sliceIndex == IF inScreen = -1 THEN findIndex(scene.cameraSlices, sliceId)
                      ELSE inScreen
    IN  IF sliceIndex = -1 THEN scene
        ELSE IF Len(scene.screenSlices) <= 1 \/ Len(scene.cameraSlices) <= 1 THEN scene
        ELSE [scene EXCEPT
                !.screenSlices = IF sliceIndex < Len(@) THEN spliceOut(@, sliceIndex) ELSE @]

\* the slices after removeSlice, or the scene unchanged when it is refused
removeSliceScene(scene, sliceId) ==
    LET inScreen == findIndex(scene.screenSlices, sliceId)
        sliceIndex == IF inScreen = -1 THEN findIndex(scene.cameraSlices, sliceId)
                      ELSE inScreen
    IN  IF sliceIndex = -1 THEN scene
        ELSE IF Len(scene.screenSlices) <= 1 \/ Len(scene.cameraSlices) <= 1 THEN scene
        ELSE [scene EXCEPT
                !.screenSlices = IF sliceIndex < Len(@) THEN spliceOut(@, sliceIndex) ELSE @,
                !.cameraSlices = IF sliceIndex < Len(@) THEN spliceOut(@, sliceIndex) ELSE @]

removeSliceRefused(scene, sliceId) ==
    \/ (findIndex(scene.screenSlices, sliceId) = -1
        /\ findIndex(scene.cameraSlices, sliceId) = -1)
    \/ Len(scene.screenSlices) <= 1
    \/ Len(scene.cameraSlices) <= 1

removeSlice(sceneIndex, sliceId) ==
    IF ~validScene(sceneIndex) THEN UNCHANGED vars
    ELSE LET scene == scenes[Pos(sceneIndex)]
         IN  IF removeSliceRefused(scene, sliceId) THEN UNCHANGED vars
             ELSE /\ commit(sceneIndex, removeSliceScene(scene, sliceId), "removeSlice")
                  /\ UNCHANGED nextId

\* 0-based positions of the slices whose open output interval holds the split time
splitCandidates(slices, splitOutputTimeMs) ==
    {i \in 0..(Len(slices) - 1) :
        /\ splitOutputTimeMs > calculateSliceOutputStart(slices, i)
        /\ splitOutputTimeMs < calculateSliceOutputStart(slices, i)
                               + calculateSliceDuration(slices[Pos(i)])}

\* Math.round(slice.sourceStartMs + offsetInSlice * slice.timeScale), offset in half-ms
sourceTimeAtSplit(slice, offsetInSlice) ==
    MathRoundHalf(2 * slice.sourceStartMs + offsetInSlice * slice.timeScale)

splitPointRefused(slice, sourceTime) ==
    \/ sourceTime <= slice.sourceStartMs + minSplitDuration
    \/ sourceTime >= slice.sourceEndMs - minSplitDuration

\* the value null of splitTrack; a split track has at least two slices
Null == <<>>

\* the loop returns at the first slice whose output interval holds the time
splitTrack(slices, splitOutputTimeMs, id1, id2) ==
    LET found == splitCandidates(slices, splitOutputTimeMs)
    IN  IF found = {} THEN Null
        ELSE LET i == Min(found)
                 slice == slices[Pos(i)]
                 at == sourceTimeAtSplit(slice,
                          splitOutputTimeMs - calculateSliceOutputStart(slices, i))
             IN  IF splitPointRefused(slice, at) THEN Null
                 ELSE SubSeq(slices, 1, Pos(i) - 1)
                      \o << [slice EXCEPT !.id = id1, !.sourceEndMs = at],
                            [slice EXCEPT !.id = id2, !.sourceStartMs = at] >>
                      \o SubSeq(slices, Pos(i) + 1, Len(slices))

splitAllTracksAt(sceneIndex, splitOutputTimeMs) ==
    IF ~validScene(sceneIndex) THEN UNCHANGED vars
    ELSE LET scene == scenes[Pos(sceneIndex)]
             newScreenSlices == splitTrack(scene.screenSlices, splitOutputTimeMs,
                                           nextId, nextId + 1)
             usedScreen == IF newScreenSlices = Null THEN 0 ELSE 2
             newCameraSlices == splitTrack(scene.cameraSlices, splitOutputTimeMs,
                                           nextId + usedScreen, nextId + usedScreen + 1)
             usedCamera == IF newCameraSlices = Null THEN 0 ELSE 2
         IN  IF newScreenSlices = Null /\ newCameraSlices = Null THEN UNCHANGED vars
             ELSE /\ commit(sceneIndex,
                        [scene EXCEPT
                           !.screenSlices = IF newScreenSlices = Null THEN @
                                            ELSE newScreenSlices,
                           !.cameraSlices = IF newCameraSlices = Null THEN @
                                            ELSE newCameraSlices],
                        "splitAllTracksAt")
                  /\ nextId' = nextId + usedScreen + usedCamera

reorderSlices(sceneIndex, track, fromIndex, toIndex) ==
    IF ~validScene(sceneIndex) THEN UNCHANGED vars
    ELSE LET scene == scenes[Pos(sceneIndex)]
             slices == getTrackSlices(scene, track)
         IN  IF \/ fromIndex < 0 \/ fromIndex >= Len(slices)
                \/ toIndex < 0 \/ toIndex >= Len(slices)
                \/ fromIndex = toIndex
             THEN UNCHANGED vars
             ELSE /\ commit(sceneIndex,
                        withTrackSlices(scene, track,
                            spliceIn(spliceOut(slices, fromIndex), toIndex,
                                     slices[Pos(fromIndex)])),
                        "reorderSlices")
                  /\ UNCHANGED nextId

----------------------------------------------------------------------------
(* timeline/SliceItem.tsx and timeline/Timeline.tsx: trims of one slice *)

\* width > SLICE_TRIM_HANDLE_WIDTH * 3 at the largest zoom:
\* width = outputDurationMs * BASE_PX_PER_MS (0.1) * timelineZoom
showHandles(slice) ==
    calculateSliceDuration(slice) * ZOOM_MAX > 2 * 10 * (SLICE_TRIM_HANDLE_WIDTH * 3)

trackSlices(track) == IF track = "screen" THEN getScreenSlices ELSE getCameraSlices

\* onKeyDown of the left handle: ArrowLeft (dir = -1), ArrowRight (dir = 1)
trimStartKey(track, index, dir) ==
    /\ index < Len(trackSlices(track))
    /\ LET slice == trackSlices(track)[Pos(index)]
       IN  /\ showHandles(slice)
           /\ updateSlice(activeSceneIndex, track, slice.id, "sourceStartMs",
                          slice.sourceStartMs + dir * KEY_TRIM_STEP_MS)

\* onKeyDown of the right handle
trimEndKey(track, index, dir) ==
    /\ index < Len(trackSlices(track))
    /\ LET slice == trackSlices(track)[Pos(index)]
       IN  /\ showHandles(slice)
           /\ updateSlice(activeSceneIndex, track, slice.id, "sourceEndMs",
                          slice.sourceEndMs + dir * KEY_TRIM_STEP_MS)

\* one mousemove of a drag of the left handle
trimStartDrag(track, index, deltaMs) ==
    /\ index < Len(trackSlices(track))
    /\ LET slice == trackSlices(track)[Pos(index)]
           maxSourceStart == slice.sourceEndMs - SLICE_MIN_DURATION_MS
       IN  /\ showHandles(slice)
           /\ updateSlice(activeSceneIndex, track, slice.id, "sourceStartMs",
                  Max2(0, Min2(slice.sourceStartMs + deltaMs * slice.timeScale,
                               maxSourceStart)))

\* one mousemove of a drag of the right handle
trimEndDrag(track, index, deltaMs) ==
    /\ index < Len(trackSlices(track))
    /\ LET slice == trackSlices(track)[Pos(index)]
           minSourceEnd == slice.sourceStartMs + SLICE_MIN_DURATION_MS
       IN  /\ showHandles(slice)
           /\ updateSlice(activeSceneIndex, track, slice.id, "sourceEndMs",
                  Max2(minSourceEnd, slice.sourceEndMs + deltaMs * slice.timeScale))

\* updateSlice(scene, track, id, { timeScale })
setTimeScale(sceneIndex, track, sliceId, timeScale) ==
    updateSlice(sceneIndex, track, sliceId, "timeScale", timeScale)

----------------------------------------------------------------------------
(* stores/projectStore.ts: layout edits *)

addLayout(sceneIndex, layout) ==
    IF ~validScene(sceneIndex) THEN UNCHANGED vars
    ELSE LET scene == scenes[Pos(sceneIndex)]
         IN  /\ commit(sceneIndex, [scene EXCEPT !.layouts = Append(@, layout)],
                       "addLayout")
             /\ nextId' = nextId + 1

\* updates is one field of Partial<Layout> with its new value
updateLayout(sceneIndex, layoutId, field, value) ==
    IF ~validScene(sceneIndex) THEN UNCHANGED vars
    ELSE LET scene == scenes[Pos(sceneIndex)]
             layoutIndex == findIndex(scene.layouts, layoutId)
         IN  IF layoutIndex = -1 THEN UNCHANGED vars
             ELSE /\ commit(sceneIndex,
                        [scene EXCEPT !.layouts[Pos(layoutIndex)][field] = value],
                        "updateLayout")
                  /\ UNCHANGED nextId

\* scene.layouts.filter((l) => l.id !== layoutId)
RECURSIVE filterOutId(_, _)
filterOutId(items, id) ==
    IF items = <<>> THEN <<>>
    ELSE IF Head(items).id = id THEN filterOutId(Tail(items), id)
    ELSE <<Head(items)>> \o filterOutId(Tail(items), id)

removeLayout(sceneIndex, layoutId) ==
    IF ~validScene(sceneIndex) THEN UNCHANGED vars
    ELSE LET scene == scenes[Pos(sceneIndex)]
         IN  /\ commit(sceneIndex,
                    [scene EXCEPT !.layouts = filterOutId(@, layoutId)],
                    "removeLayout")
             /\ UNCHANGED nextId

splitLayout(sceneIndex, layoutId, splitTimeMs) ==
    IF ~validScene(sceneIndex) THEN UNCHANGED vars
    ELSE LET scene == scenes[Pos(sceneIndex)]
             layoutIndex == findIndex(scene.layouts, layoutId)
         IN  IF layoutIndex = -1 THEN UNCHANGED vars
             ELSE LET layout == scene.layouts[Pos(layoutIndex)]
                  IN  IF \/ splitTimeMs <= layout.startTime + 2 * layoutMinSplitDuration
                         \/ splitTimeMs >= layout.endTime - 2 * layoutMinSplitDuration
                      THEN UNCHANGED vars
                      ELSE /\ commit(sceneIndex,
                                 [scene EXCEPT !.layouts =
                                     SubSeq(@, 1, Pos(layoutIndex) - 1)
                                     \o << [layout EXCEPT !.id = nextId,
                                                          !.endTime = splitTimeMs],
                                           [layout EXCEPT !.id = nextId + 1,
                                                          !.startTime = splitTimeMs] >>
                                     \o SubSeq(@, Pos(layoutIndex) + 1, Len(@))],
                                 "splitLayout")
                           /\ nextId' = nextId + 2

(* timeline/LayoutTrack.tsx: one mousemove of a drag of a layout boundary; *)
(* onLayoutUpdate hands the patch to updateLayout of the active scene      *)
handleBoundaryDrag(index, side, delta) ==
    /\ index < Len(getLayouts)
    /\ LET layout == getLayouts[Pos(index)]
       IN  IF side = "start"
           THEN updateLayout(activeSceneIndex, layout.id, "startTime",
                    Max2(0, Min2(layout.endTime - 2 * layoutMinDuration,
                                 layout.startTime + delta)))
           ELSE updateLayout(activeSceneIndex, layout.id, "endTime",
                    Max2(layout.startTime + 2 * layoutMinDuration,
                         layout.endTime + delta))

----------------------------------------------------------------------------
(* State machine of the slice edits *)

Init ==
    /\ project = "null"
    /\ scenes = <<>>
    /\ activeSceneIndex = 0
    /\ autoSaveTimeout = "null"
    /\ nextId = 1
    /\ opCount = [op \in Ops |-> 0]
    /\ currentTimeMs = 0
    /\ totalDurationMs = 0
    /\ isPlaying = FALSE
    /\ videoTime = 0
    /\ auxInit
    /\ args = NoArgs
    /\ result = NoResult

sliceIds ==
    IF scenes = <<>> THEN {}
    ELSE {scenes[1].screenSlices[i].id : i \in 1..Len(scenes[1].screenSlices)}
         \cup {scenes[1].cameraSlices[i].id : i \in 1..Len(scenes[1].cameraSlices)}

SlicePositions == 0..MaxSplits

Next ==
    \/ \E d \in RecordingDurations : initializeFromRecording(d)
    \/ \E si \in SceneIndexes, t \in SplitTimes :
          /\ opCount["splitAllTracksAt"] < MaxSplits
          /\ splitAllTracksAt(si, t)
    \/ \E si \in SceneIndexes, id \in sliceIds \cup {0} :
          /\ opCount["removeSlice"] < MaxRemoves
          /\ removeSlice(si, id)
    \/ \E si \in SceneIndexes, tr \in Tracks, from \in SlicePositions, to \in SlicePositions :
          /\ opCount["reorderSlices"] < MaxReorders
          /\ reorderSlices(si, tr, from, to)
    \/ \E tr \in Tracks, i \in SlicePositions, dir \in {-1, 1} :
          /\ opCount["updateSlice"] < MaxTrims
          /\ trimStartKey(tr, i, dir)
    \/ \E tr \in Tracks, i \in SlicePositions, dir \in {-1, 1} :
          /\ opCount["updateSlice"] < MaxTrims
          /\ trimEndKey(tr, i, dir)
    \/ \E tr \in Tracks, i \in SlicePositions, d \in DragDeltasMs :
          /\ opCount["updateSlice"] < MaxTrims
          /\ trimStartDrag(tr, i, d)
    \/ \E tr \in Tracks, i \in SlicePositions, d \in DragDeltasMs :
          /\ opCount["updateSlice"] < MaxTrims
          /\ trimEndDrag(tr, i, d)
    \/ \E si \in SceneIndexes, tr \in Tracks, id \in sliceIds, ts \in TimeScales :
          /\ opCount["updateSlice"] < MaxTrims
          /\ setTimeScale(si, tr, id, ts)

Spec == Init /\ [][Next]_vars

(* Cuts only: splits, removals and reorders, no per-track trim *)

NextCuts ==
    \/ \E d \in RecordingDurations : initializeFromRecording(d)
    \/ \E si \in SceneIndexes, t \in SplitTimes :
          /\ opCount["splitAllTracksAt"] < MaxSplits
          /\ splitAllTracksAt(si, t)
    \/ \E si \in SceneIndexes, id \in sliceIds \cup {0} :
          /\ opCount["removeSlice"] < MaxRemoves
          /\ removeSlice(si, id)
    \/ \E si \in SceneIndexes, tr \in Tracks, from \in SlicePositions, to \in SlicePositions :
          /\ opCount["reorderSlices"] < MaxReorders
          /\ reorderSlices(si, tr, from, to)

SpecCuts == Init /\ [][NextCuts]_vars

(* Layout edits only *)

layoutIds ==
    IF scenes = <<>> THEN {}
    ELSE {scenes[1].layouts[i].id : i \in 1..Len(scenes[1].layouts)}

layoutEdits ==
    opCount["addLayout"] + opCount["updateLayout"]
    + opCount["removeLayout"] + opCount["splitLayout"]

NextLayout ==
    \/ \E d \in RecordingDurations : initializeFromRecording(d)
    \/ \E si \in SceneIndexes, r \in NewLayoutRanges :
          /\ layoutEdits < MaxLayoutEdits
          /\ addLayout(si, [id |-> nextId, startTime |-> r[1], endTime |-> r[2],
                            type |-> "screen-only"])
    \/ \E i \in 0..MaxLayoutEdits, side \in {"start", "end"}, d \in LayoutDragDeltas :
          /\ layoutEdits < MaxLayoutEdits
          /\ handleBoundaryDrag(i, side, d)
    \/ \E si \in SceneIndexes, id \in layoutIds \cup {0} :
          /\ layoutEdits < MaxLayoutEdits
          /\ removeLayout(si, id)
    \/ \E si \in SceneIndexes, id \in layoutIds \cup {0}, t \in LayoutSplitTimes :
          /\ layoutEdits < MaxLayoutEdits
          /\ splitLayout(si, id, t)

SpecLayout == Init /\ [][NextLayout]_vars

----------------------------------------------------------------------------
(* Properties *)

totalOutputDuration == calculateTotalDuration(getScreenSlices)

allSlices ==
    {getScreenSlices[i] : i \in 1..Len(getScreenSlices)}
    \cup {getCameraSlices[i] : i \in 1..Len(getCameraSlices)}

\* a step of splitAllTracksAt at output time t, applied or refused
SplitStep(t) == \E si \in SceneIndexes : splitAllTracksAt(si, t)

\* a step of splitAllTracksAt at output time t that changed the scene
SplitApplied(t) == SplitStep(t) /\ scenes' # scenes

gainedOne(old, new) == Len(new) = Len(old) + 1

\* new is old with the slice at 0-based position i replaced by two slices
splitAtPosition(old, new, i) ==
    /\ i >= 0 /\ i < Len(old)
    /\ Len(new) = Len(old) + 1
    /\ SubSeq(new, 1, Pos(i) - 1) = SubSeq(old, 1, Pos(i) - 1)
    /\ SubSeq(new, Pos(i) + 2, Len(new)) = SubSeq(old, Pos(i) + 1, Len(old))
    /\ new[Pos(i)].sourceStartMs = old[Pos(i)].sourceStartMs
    /\ new[Pos(i)].sourceEndMs = new[Pos(i) + 1].sourceStartMs
    /\ new[Pos(i) + 1].sourceEndMs = old[Pos(i)].sourceEndMs
    /\ new[Pos(i)].timeScale = old[Pos(i)].timeScale
    /\ new[Pos(i) + 1].timeScale = old[Pos(i)].timeScale

\* new is old with the slice covering t cut at the rounded source time of t
splitInPlace(old, new, t) ==
    /\ splitCandidates(old, t) # {}
    /\ LET i == Min(splitCandidates(old, t))
       IN  /\ splitAtPosition(old, new, i)
           /\ new[Pos(i)].sourceEndMs =
                 sourceTimeAtSplit(old[Pos(i)], t - calculateSliceOutputStart(old, i))
    /\ calculateTotalDuration(new) = calculateTotalDuration(old)

layoutsContiguous(ls) == \A i \in 1..(Len(ls) - 1) : ls[i].endTime = ls[i + 1].startTime

\* the layouts cover exactly [0, total]
layoutsCover(ls, total) ==
    /\ ls # <<>>
    /\ ls[1].startTime = 0
    /\ ls[Len(ls)].endTime = total
    /\ layoutsContiguous(ls)

\* S2
layoutsS2(ls, total) ==
    /\ layoutsCover(ls, total)
    /\ \A i \in 1..Len(ls) : ls[i].endTime - ls[i].startTime >= 2 * layoutMinDuration

\* C3: every slice of both tracks satisfies S1 in every state reached by
\* edits: start >= 0, at least MIN_SLICE_MS long, timeScale > 0.
C3_SlicesValid == \A slice \in allSlices : isValidSlice(slice, MIN_SLICE_MS)

\* C1: after any sequence of splits, removals and per-track trims (no
\* reorder, every slice within S1) the screen track and the camera track
\* have the same number of slices.
C1_EqualLength ==
    (opCount["reorderSlices"] = 0 /\ C3_SlicesValid)
        => Len(getScreenSlices) = Len(getCameraSlices)

\* C2: a split is atomic across the tracks: it replaces one slice by two on
\* both tracks or it changes neither track.
C2_SplitAtomic ==
    [][\A t \in SplitTimes :
          SplitStep(t) =>
             \/ /\ gainedOne(getScreenSlices, getScreenSlices')
                /\ gainedOne(getCameraSlices, getCameraSlices')
             \/ /\ getScreenSlices' = getScreenSlices
                /\ getCameraSlices' = getCameraSlices]_vars

\* C4: after any sequence of layout edits the layouts are contiguous, cover
\* [0, total_output_duration] and each lasts at least MIN_LAYOUT_MS.
C4_LayoutsS2 == scenes # <<>> => layoutsS2(getLayouts, totalOutputDuration)

\* C5: after a slice edit that changes total_output_duration the layouts
\* cover exactly [0, total_output_duration].
C5_LayoutsFollowTotal ==
    [][(scenes # <<>> /\ totalOutputDuration' # totalOutputDuration)
          => layoutsCover(getLayouts', totalOutputDuration')]_vars

\* C6: an applied split replaces, on each track, the slice covering t in
\* place by two slices meeting at the rounded source time of t, leaves the
\* other slices alone and keeps the track's total output duration.
C6_SplitInPlace ==
    [][\A t \in SplitTimes :
          SplitApplied(t) =>
             /\ splitInPlace(getScreenSlices, getScreenSlices', t)
             /\ splitInPlace(getCameraSlices, getCameraSlices', t)]_vars

\* C7: removeSlice of an id found at position i removes position i from both
\* tracks, or changes nothing when a track would become empty; no track is
\* ever empty.
C7_RemoveLinked ==
    [][\A id \in sliceIds :
          (\E si \in SceneIndexes : removeSlice(si, id) /\ validScene(si)) =>
             LET inScreen == findIndex(getScreenSlices, id)
                 i == IF inScreen = -1 THEN findIndex(getCameraSlices, id) ELSE inScreen
             IN  IF Len(getScreenSlices) <= 1 \/ Len(getCameraSlices) <= 1
                 THEN scenes' = scenes
                 ELSE /\ i < Len(getScreenSlices) /\ i < Len(getCameraSlices)
                      /\ getScreenSlices' = spliceOut(getScreenSlices, i)
                      /\ getCameraSlices' = spliceOut(getCameraSlices, i)
                      /\ getScreenSlices' # <<>> /\ getCameraSlices' # <<>>]_vars

\* C8: a split that cuts both tracks cuts the same position on both, the
\* position of the clip covering t on the screen track.
C8_SplitSamePosition ==
    [][\A t \in SplitTimes :
          (/\ SplitStep(t)
           /\ gainedOne(getScreenSlices, getScreenSlices')
           /\ gainedOne(getCameraSlices, getCameraSlices')) =>
             LET i == Min(splitCandidates(getScreenSlices, t))
             IN  /\ splitAtPosition(getScreenSlices, getScreenSlices', i)
                 /\ splitAtPosition(getCameraSlices, getCameraSlices', i)]_vars

\* C9: on a track with a slice covering t, the split is refused exactly when
\* the rounded source split point lies outside the closed range
\* [sourceStartMs + 100, sourceEndMs - 100].
C9_RefusedOutsideClosedRange ==
    \A tr \in Tracks, t \in SplitTimes :
        LET slices == trackSlices(tr)
            found == splitCandidates(slices, t)
        IN  found # {} =>
              LET i == Min(found)
                  slice == slices[Pos(i)]
                  at == sourceTimeAtSplit(slice, t - calculateSliceOutputStart(slices, i))
              IN  (splitTrack(slices, t, nextId, nextId + 1) = Null)
                  <=> ~(/\ at >= slice.sourceStartMs + MIN_SLICE_MS
                        /\ at <= slice.sourceEndMs - MIN_SLICE_MS)

\* position by position the two tracks have the same output durations
linkedDurations ==
    /\ Len(getScreenSlices) = Len(getCameraSlices)
    /\ \A i \in 1..Len(getScreenSlices) :
          i <= Len(getCameraSlices) =>
             calculateSliceDuration(getScreenSlices[i])
                = calculateSliceDuration(getCameraSlices[i])
    /\ calculateTotalDuration(getScreenSlices) = calculateTotalDuration(getCameraSlices)

refusedLayoutEdit ==
    \/ \E si \in SceneIndexes, id \in layoutIds \cup {0} :
          /\ removeLayout(si, id)
          /\ (~validScene(si) \/ findIndex(scenes[Pos(si)].layouts, id) = -1)
    \/ \E si \in SceneIndexes, id \in layoutIds \cup {0}, t \in LayoutSplitTimes :
          /\ splitLayout(si, id, t)
          /\ \/ ~validScene(si)
             \/ findIndex(scenes[Pos(si)].layouts, id) = -1
             \/ LET layout == scenes[Pos(si)].layouts[Pos(findIndex(scenes[Pos(si)].layouts, id))]
                IN  \/ t <= layout.startTime + 2 * layoutMinSplitDuration
                    \/ t >= layout.endTime - 2 * layoutMinSplitDuration
    \/ \E si \in SceneIndexes, r \in NewLayoutRanges :
          /\ addLayout(si, [id |-> nextId, startTime |-> r[1], endTime |-> r[2],
                            type |-> "screen-only"])
          /\ ~validScene(si)

\* C11: a refused edit leaves the whole project state unchanged and signals
\* no project change: set() and triggerAutoSave are not called, so no
\* auto-save is scheduled.
C11_RefusedEditUnchanged ==
    [][refusedLayoutEdit =>
          /\ UNCHANGED <<project, scenes, activeSceneIndex, nextId>>
          /\ autoSaveTimeout' = autoSaveTimeout
          /\ opCount' = opCount]_vars

----------------------------------------------------------------------------
(* Calls of the slice time algebra: outputTimeToSource, sourceTimeToOutput *)

\* slices handed to the time algebra: any positional order, overlaps allowed
CallSlices ==
    {[id |-> 0, sourceStartMs |-> a, sourceEndMs |-> a + d, timeScale |-> ts] :
        a \in {0, 300}, d \in {100, 400}, ts \in TimeScales}

RECURSIVE SeqsUpTo(_, _)
SeqsUpTo(S, n) ==
    IF n = 0 THEN {<<>>}
    ELSE LET shorter == SeqsUpTo(S, n - 1)
         IN  shorter \cup {Append(q, x) : q \in shorter, x \in S}

CallSliceSeqs == SeqsUpTo(CallSlices, MaxCallSlices)

\* output times at and around every slice boundary, in half-ms
CallOutputTimes(slices) ==
    LET bounds == {calculateSliceOutputStart(slices, i) : i \in 0..Len(slices)}
    IN  {-200} \cup UNION {{b - 1, b, b + 1, b + 100} : b \in bounds}

\* source times of slice i in half-ms, whole milliseconds only
CallSourceTimes(slice) ==
    {2 * slice.sourceStartMs - 2, 2 * slice.sourceStartMs,
     2 * slice.sourceStartMs + 2, 2 * slice.sourceStartMs + 100,
     2 * slice.sourceEndMs - 2, 2 * slice.sourceEndMs}

InitSliceTime ==
    /\ project = "null"
    /\ scenes = <<>>
    /\ activeSceneIndex = 0
    /\ autoSaveTimeout = "null"
    /\ nextId = 1
    /\ opCount = [op \in Ops |-> 0]
    /\ currentTimeMs = 0
    /\ totalDurationMs = 0
    /\ isPlaying = FALSE
    /\ videoTime = 0
    /\ auxInit
    /\ result = NoResult
    /\ \E slices \in CallSliceSeqs :
          \/ \E t \in CallOutputTimes(slices) :
                args = [fn |-> "outputTimeToSource", slices |-> slices,
                        outputTimeMs |-> t, sliceIndex |-> -1, sourceTimeMs |-> -1]
          \/ \E i \in -1..Len(slices) :
                \E src \in (IF i >= 0 /\ i < Len(slices)
                            THEN CallSourceTimes(slices[Pos(i)]) ELSE {0}) :
                   args = [fn |-> "sourceTimeToOutput", slices |-> slices,
                           outputTimeMs |-> -1, sliceIndex |-> i, sourceTimeMs |-> src]

callOutputTimeToSource ==
    /\ args.fn = "outputTimeToSource"
    /\ result = NoResult
    /\ result' = outputTimeToSource(args.slices, args.outputTimeMs)
    /\ UNCHANGED <<args, projectVars, playbackVars, mediaVars, storeVars>>

callSourceTimeToOutput ==
    /\ args.fn = "sourceTimeToOutput"
    /\ result = NoResult
    /\ result' = [outputTimeMs |-> sourceTimeToOutput(args.slices, args.sliceIndex,
                                                      args.sourceTimeMs)]
    /\ UNCHANGED <<args, projectVars, playbackVars, mediaVars, storeVars>>

\* the output time returned by sourceTimeToOutput is handed to
\* outputTimeToSource; sliceIndex and sourceTimeMs keep the original pair
callRoundTrip ==
    /\ args.fn = "sourceTimeToOutput"
    /\ result # NoResult
    /\ args' = [args EXCEPT !.fn = "outputTimeToSource",
                            !.outputTimeMs = result.outputTimeMs]
    /\ result' = NoResult
    /\ UNCHANGED <<projectVars, playbackVars, mediaVars, storeVars>>

NextSliceTime ==
    \/ callOutputTimeToSource
    \/ callSourceTimeToOutput
    \/ callRoundTrip

SpecSliceTime == InitSliceTime /\ [][NextSliceTime]_vars

slicesS1(slices) == \A i \in 1..Len(slices) : isValidSlice(slices[i], MIN_SLICE_MS)

\* a returned call of outputTimeToSource on S1 slices
returnedOutputTimeToSource ==
    /\ args # NoArgs
    /\ args.fn = "outputTimeToSource"
    /\ result # NoResult
    /\ slicesS1(args.slices)

\* C12: on non-empty S1 slices and 0 <= t <= total, outputTimeToSource
\* returns an index i in [0, N) and a source time within slice i; for
\* t < total, i is the position whose output interval [acc_i, acc_i + d_i)
\* holds t.
C12_OutputToSourceInRange ==
    (/\ returnedOutputTimeToSource
     /\ Len(args.slices) > 0
     /\ args.outputTimeMs >= 0
     /\ args.outputTimeMs <= calculateTotalDuration(args.slices)) =>
        LET i == result.sliceIndex
        IN  /\ i >= 0 /\ i < Len(args.slices)
            /\ result.sourceTimeMs >= 2 * args.slices[Pos(i)].sourceStartMs
            /\ result.sourceTimeMs <= 2 * args.slices[Pos(i)].sourceEndMs
            /\ args.outputTimeMs < calculateTotalDuration(args.slices) =>
                  /\ calculateSliceOutputStart(args.slices, i) <= args.outputTimeMs
                  /\ args.outputTimeMs < calculateSliceOutputStart(args.slices, i + 1)
                  /\ \A j \in 0..(Len(args.slices) - 1) :
                        (/\ calculateSliceOutputStart(args.slices, j) <= args.outputTimeMs
                         /\ args.outputTimeMs < calculateSliceOutputStart(args.slices, j + 1))
                           => j = i

C12_Witness ==
    /\ returnedOutputTimeToSource
    /\ Len(args.slices) = 2
    /\ args.outputTimeMs = calculateSliceOutputStart(args.slices, 1)
    /\ result.sliceIndex = 1

\* a returned call of outputTimeToSource on the output time that
\* sourceTimeToOutput gave for a source time s within slice i of S1 slices
returnedRoundTrip ==
    /\ returnedOutputTimeToSource
    /\ args.sliceIndex >= 0
    /\ args.sliceIndex < Len(args.slices)
    /\ args.sourceTimeMs >= 2 * args.slices[Pos(args.sliceIndex)].sourceStartMs
    /\ args.sourceTimeMs < 2 * args.slices[Pos(args.sliceIndex)].sourceEndMs

C14_OutputTimeClamped ==
    (returnedOutputTimeToSource /\ Len(args.slices) > 0) =>
        /\ args.outputTimeMs < 0 =>
              result = outputTimeToSource(args.slices, 0)
        /\ args.outputTimeMs >= calculateTotalDuration(args.slices) =>
              result = [sliceIndex |-> Len(args.slices) - 1,
                        sourceTimeMs |-> 2 * args.slices[Len(args.slices)].sourceEndMs]

----------------------------------------------------------------------------
(* stores/playbackStore.ts *)

\* the new currentTimeMs of setCurrentTime(timeMs)
setCurrentTime(timeMs) == Max2(0, Min2(timeMs, totalDurationMs))

\* stepFrame(direction, fps): frameDurationMs = 1000 / fps
stepFrame(direction, fps) ==
    LET frameDurationMs == 2000 \div fps
        delta == IF direction = "forward" THEN frameDurationMs ELSE -frameDurationMs
    IN  /\ UNCHANGED <<projectVars, callVars, storeVars>>
        /\ renderEffects(Max2(0, Min2(currentTimeMs + delta, totalDurationMs)),
                         isPlaying, videoTime, micTime, webcamTime,
                         seekedPending, smoother, sliceAdvanced)

(* components/editor/EditorView.tsx: the handlers of the media elements;  *)
(* the video element is mounted once the recording has loaded and the      *)
(* handlers return early without it                                        *)

\* useMemo: the slice index of the playhead, from the screen slices
sliceIndex == outputTimeToSource(getScreenSlices, currentTimeMs).sliceIndex

\* handleMicAudioLoaded: the metadata of the microphone audio has loaded
handleMicAudioLoaded(audioDuration) ==
    /\ project = "loaded"
    /\ micDuration = 0
    /\ micDuration' = audioDuration
    /\ LET offset == videoDurationMs - audioDuration
       IN  micAudioOffset' = IF offset > 0 THEN offset ELSE 0
    /\ UNCHANGED <<projectVars, playbackVars, callVars, storeVars, webcamTime,
                   micTime, seekedPending, smoother, sliceAdvanced>>

handleSeek(outputTimeMs) ==
    LET src == outputTimeToSource(getScreenSlices, outputTimeMs).sourceTimeMs
        cursorAtTime == findCursorAtTime(mouseMoves, src)
    IN  /\ project = "loaded"
        /\ UNCHANGED <<projectVars, callVars, storeVars>>
        /\ renderEffects(setCurrentTime(outputTimeMs), isPlaying, videoClamp(src),
                         IF micDuration > 0 THEN audioClamp(src) ELSE micTime,
                         webcamTime, TRUE, smootherReset(smoother, cursorAtTime),
                         IF cursorAtTime # <<>> THEN FALSE ELSE sliceAdvanced)

\* timeline click, playhead drag, keyboard seek: the target is clamped by the caller
seekTo(timeMs) == handleSeek(Max2(0, Min2(timeMs, totalDurationMs)))

\* handleFrameStep: frameTime = 1000 / recordingBundle.videoMetadata.fps
handleFrameStep(direction, fps) ==
    LET frameTime == 2000 \div fps
        newTime == currentTimeMs + (IF direction = "forward" THEN frameTime ELSE -frameTime)
    IN  /\ project = "loaded"
        /\ handleSeek(Max2(0, Min2(totalDurationMs, newTime)))

\* a media element that has ended starts again from 0 when played
handlePlayPause ==
    /\ project = "loaded"
    /\ UNCHANGED <<projectVars, callVars, storeVars>>
    /\ IF isPlaying
       THEN renderEffects(currentTimeMs, FALSE, videoTime, micTime, webcamTime,
                          seekedPending, smoother, sliceAdvanced)
       ELSE LET synced == syncAudio(videoTime, micTime)
                restart == videoTime >= videoDurationMs
            IN  renderEffects(currentTimeMs, TRUE,
                              IF restart THEN 0 ELSE videoTime,
                              IF micDuration > 0 /\ synced >= micDuration THEN 0 ELSE synced,
                              webcamTime, seekedPending \/ restart, smoother,
                              sliceAdvanced)

\* the loop of handleVideoTimeUpdate that turns the video's source time into
\* an output time, from 0-based position i
RECURSIVE outputTimeOfVideoTime(_, _, _, _)
outputTimeOfVideoTime(slices, videoSourceTime, i, outputTime) ==
    IF i >= Len(slices) THEN outputTime
    ELSE LET slice == slices[Pos(i)]
         IN  IF /\ videoSourceTime >= 2 * slice.sourceStartMs
                /\ videoSourceTime < 2 * slice.sourceEndMs
             THEN outputTime + (videoSourceTime - 2 * slice.sourceStartMs) \div slice.timeScale
             ELSE IF videoSourceTime >= 2 * slice.sourceEndMs
             THEN outputTimeOfVideoTime(slices, videoSourceTime, i + 1,
                                        outputTime + calculateSliceDuration(slice))
             ELSE outputTimeOfVideoTime(slices, videoSourceTime, i + 1, outputTime)

\* the video reached the end of the current slice and a next slice exists
advancesSlice(videoSourceTime) ==
    /\ Len(getScreenSlices) > 0
    /\ sliceIndex >= 0 /\ sliceIndex < Len(getScreenSlices)
    /\ videoSourceTime >= 2 * getScreenSlices[Pos(sliceIndex)].sourceEndMs
    /\ sliceIndex + 1 < Len(getScreenSlices)

\* the video reached the end of the last slice
endsPlayback(videoSourceTime) ==
    /\ Len(getScreenSlices) > 0
    /\ sliceIndex >= 0 /\ sliceIndex < Len(getScreenSlices)
    /\ videoSourceTime >= 2 * getScreenSlices[Pos(sliceIndex)].sourceEndMs
    /\ sliceIndex + 1 >= Len(getScreenSlices)

\* the media elements have played on by advance and the video fires timeupdate
handleVideoTimeUpdate(advance) ==
    /\ project = "loaded"
    /\ isPlaying
    /\ videoTime < videoDurationMs
    /\ UNCHANGED <<projectVars, callVars, storeVars>>
    /\ LET videoSourceTime == videoClamp(videoTime + advance)
           played == IF micDuration > 0 THEN audioClamp(micTime + advance) ELSE micTime
           wt == videoClamp(webcamTime + advance)
           slices == getScreenSlices
           nextStart == 2 * slices[Pos(sliceIndex + 1)].sourceStartMs
       IN  IF Len(slices) = 0
           THEN renderEffects(setCurrentTime(videoSourceTime), TRUE, videoSourceTime,
                              played, wt, seekedPending, smoother, sliceAdvanced)
           ELSE LET outputTime == outputTimeOfVideoTime(slices, videoSourceTime, 0, 0)
                IN  IF advancesSlice(videoSourceTime)
                    THEN renderEffects(setCurrentTime(outputTime), TRUE,
                                       videoClamp(nextStart),
                                       IF micDuration > 0 THEN audioClamp(nextStart) ELSE played,
                                       wt, TRUE, smoother, TRUE)
                    ELSE renderEffects(setCurrentTime(outputTime),
                                       ~endsPlayback(videoSourceTime), videoSourceTime,
                                       played, wt, seekedPending, smoother, sliceAdvanced)

\* onEnded: the video reached the end of the recording
handleVideoEnded ==
    /\ isPlaying
    /\ videoTime >= videoDurationMs
    /\ UNCHANGED <<projectVars, callVars, storeVars>>
    /\ renderEffects(currentTimeMs, FALSE, videoTime, micTime, webcamTime,
                     seekedPending, smoother, sliceAdvanced)

\* onSeeked={syncAudio}: the video element reports that its seek is done
onSeeked ==
    /\ seekedPending
    /\ seekedPending' = FALSE
    /\ micTime' = syncAudio(videoTime, micTime)
    /\ UNCHANGED <<projectVars, playbackVars, callVars, storeVars, webcamTime,
                   micDuration, micAudioOffset, smoother, sliceAdvanced>>

\* one frame of the cursor animation loop while playing
animate ==
    /\ isPlaying
    /\ LET cursorAtTime == findCursorAtTime(mouseMoves, videoTime)
       IN  smoother' = IF cursorAtTime # <<>>
                       THEN smootherUpdate(smoother, cursorAtTime[1])
                       ELSE smoother
    /\ UNCHANGED <<projectVars, playbackVars, callVars, storeVars, webcamTime,
                   micTime, micDuration, micAudioOffset, seekedPending, sliceAdvanced>>

----------------------------------------------------------------------------
(* Playback under edits *)

playbackEdits ==
    opCount["splitAllTracksAt"] + opCount["removeSlice"] + opCount["updateSlice"]

NextPlayback ==
    \/ \E d \in RecordingDurations : initializeFromRecording(d)
    \/ \E t \in SplitTimes :
          /\ playbackEdits < MaxPlaybackEdits
          /\ splitAllTracksAt(activeSceneIndex, t)
    \/ \E id \in sliceIds :
          /\ playbackEdits < MaxPlaybackEdits
          /\ removeSlice(activeSceneIndex, id)
    \/ \E tr \in {"screen"}, i \in SlicePositions, dir \in {-1, 1} :
          /\ playbackEdits < MaxPlaybackEdits
          /\ trimEndKey(tr, i, dir)
    \/ \E tr \in {"screen"}, i \in SlicePositions, d \in DragDeltasMs :
          /\ playbackEdits < MaxPlaybackEdits
          /\ trimEndDrag(tr, i, d)
    \/ \E t \in SeekTimes : seekTo(t)
    \/ \E dir \in {"forward", "back"}, fps \in FrameRates : stepFrame(dir, fps)
    \/ handlePlayPause
    \/ \E a \in VideoAdvances : handleVideoTimeUpdate(a)
    \/ handleVideoEnded

SpecPlayback == Init /\ [][NextPlayback]_vars

\* C15: after any sequence of seeks, frame steps and total-duration updates
\* caused by edits, 0 <= currentTimeMs <= totalDurationMs.
C15_PlayheadInRange == currentTimeMs >= 0 /\ currentTimeMs <= totalDurationMs

\* a timeupdate of the video while its source time lies within the slice
\* being played, all screen slices within S1
timeUpdateInSlice(advance) ==
    /\ handleVideoTimeUpdate(advance)
    /\ Len(getScreenSlices) > 0
    /\ slicesS1(getScreenSlices)
    /\ sliceIndex >= 0 /\ sliceIndex < Len(getScreenSlices)
    /\ videoClamp(videoTime + advance) >= 2 * getScreenSlices[Pos(sliceIndex)].sourceStartMs
    /\ videoClamp(videoTime + advance) < 2 * getScreenSlices[Pos(sliceIndex)].sourceEndMs

\* C20: on every playback time update the published output time equals
\* sourceTimeToOutput(slices, slice_index, source_time) for the slice being
\* played, whatever the positional order of the slices.
C20_PublishedOutputTime ==
    [][\A a \in VideoAdvances :
          timeUpdateInSlice(a) =>
             currentTimeMs' = sourceTimeToOutput(getScreenSlices, sliceIndex,
                                                 videoClamp(videoTime + a))]_vars

----------------------------------------------------------------------------
(* Calls of the event lookups *)

EventTimes == {10, 20, 30}
LookupTimes == {0, 10, 15, 20, 30, 40}

isSortedByTime(times) == \A i \in 1..(Len(times) - 1) : times[i] <= times[i + 1]

\* event arrays sorted non-decreasingly by processTimeMs; id is the position
\* at which the event was recorded
EventArrays ==
    {[i \in 1..Len(times) |-> [processTimeMs |-> times[i], id |-> i]] :
        times \in {q \in SeqsUpTo(EventTimes, MaxEvents) : isSortedByTime(q)}}

InitEventLookup ==
    /\ project = "null"
    /\ scenes = <<>>
    /\ activeSceneIndex = 0
    /\ autoSaveTimeout = "null"
    /\ nextId = 1
    /\ opCount = [op \in Ops |-> 0]
    /\ currentTimeMs = 0
    /\ totalDurationMs = 0
    /\ isPlaying = FALSE
    /\ videoTime = 0
    /\ auxInit
    /\ result = NoResult
    /\ \E events \in EventArrays :
          \/ \E t \in LookupTimes, fn \in {"binarySearchTime", "findCursorAtTime"} :
                args = [fn |-> fn, events |-> events, timeMs |-> t, endTimeMs |-> t]
          \/ \E t0 \in LookupTimes, t1 \in LookupTimes :
                /\ t0 <= t1
                /\ args = [fn |-> "findClicksInRange", events |-> events,
                           timeMs |-> t0, endTimeMs |-> t1]

callBinarySearchTime ==
    /\ args.fn = "binarySearchTime"
    /\ result = NoResult
    /\ result' = [value |-> binarySearchTime(args.events, args.timeMs)]
    /\ UNCHANGED <<args, projectVars, playbackVars, mediaVars, storeVars>>

callFindCursorAtTime ==
    /\ args.fn = "findCursorAtTime"
    /\ result = NoResult
    /\ result' = [value |-> findCursorAtTime(args.events, args.timeMs)]
    /\ UNCHANGED <<args, projectVars, playbackVars, mediaVars, storeVars>>

callFindClicksInRange ==
    /\ args.fn = "findClicksInRange"
    /\ result = NoResult
    /\ result' = [value |-> findClicksInRange(args.events, args.timeMs, args.endTimeMs)]
    /\ UNCHANGED <<args, projectVars, playbackVars, mediaVars, storeVars>>

NextEventLookup ==
    \/ callBinarySearchTime
    \/ callFindCursorAtTime
    \/ callFindClicksInRange

SpecEventLookup == InitEventLookup /\ [][NextEventLookup]_vars

\* the linear scan: the greatest 0-based index with processTimeMs <= t, or -1
linearScan(events, timeMs) ==
    LET hits == {i \in 0..(Len(events) - 1) : events[Pos(i)].processTimeMs <= timeMs}
    IN  IF hits = {} THEN -1 ELSE CHOOSE i \in hits : \A j \in hits : j <= i

returned(fn) == args # NoArgs /\ args.fn = fn /\ result # NoResult

\* C16: on an event array sorted by processTimeMs, duplicates allowed,
\* binarySearchTime returns the greatest index with processTimeMs <= t and -1
\* when there is none, as a linear scan does; findCursorAtTime returns that
\* event, or null.
C16_BinarySearchIsLinearScan ==
    /\ returned("binarySearchTime") =>
          result.value = linearScan(args.events, args.timeMs)
    /\ returned("findCursorAtTime") =>
          result.value = (IF linearScan(args.events, args.timeMs) = -1 THEN <<>>
                          ELSE <<args.events[Pos(linearScan(args.events, args.timeMs))]>>)

C16_Witness ==
    /\ returned("binarySearchTime")
    /\ Len(args.events) = 3
    /\ args.events[1].processTimeMs = args.events[2].processTimeMs
    /\ args.events[2].processTimeMs < args.events[3].processTimeMs
    /\ args.timeMs = args.events[1].processTimeMs
    /\ result.value = 1

\* the clicks with t0 <= processTimeMs <= t1, in array order
RECURSIVE clicksWithin(_, _, _)
clicksWithin(clicks, t0, t1) ==
    IF clicks = <<>> THEN <<>>
    ELSE (IF Head(clicks).processTimeMs >= t0 /\ Head(clicks).processTimeMs <= t1
          THEN <<Head(clicks)>> ELSE <<>>) \o clicksWithin(Tail(clicks), t0, t1)

\* C17: on a click array sorted by processTimeMs, duplicates allowed, and
\* t0 <= t1, findClicksInRange returns exactly the clicks with
\* t0 <= processTimeMs <= t1, in array order, omitting none.
C17_ClicksInRangeExact ==
    returned("findClicksInRange") =>
        result.value = clicksWithin(args.events, args.timeMs, args.endTimeMs)

----------------------------------------------------------------------------
(* Projects derived from recordings of any duration, then cut *)

NextInit ==
    \/ \E d \in InitDurations : initializeFromRecording(d)
    \/ \E si \in SceneIndexes, t \in SplitTimes :
          /\ opCount["splitAllTracksAt"] < MaxSplits
          /\ splitAllTracksAt(si, t)
    \/ \E si \in SceneIndexes, id \in sliceIds \cup {0} :
          /\ opCount["removeSlice"] < MaxRemoves
          /\ removeSlice(si, id)
    \/ \E si \in SceneIndexes, tr \in Tracks, from \in SlicePositions, to \in SlicePositions :
          /\ opCount["reorderSlices"] < MaxReorders
          /\ reorderSlices(si, tr, from, to)

SpecInit == Init /\ [][NextInit]_vars

\* the scene that initializeFromRecording(durationMs) is said to insert
defaultSceneInserted(durationMs) ==
    /\ Len(scenes') = 1
    /\ Len(getScreenSlices') = 1
    /\ Len(getCameraSlices') = 1
    /\ \A slice \in {getScreenSlices'[1], getCameraSlices'[1]} :
          /\ slice.sourceStartMs = 0
          /\ slice.sourceEndMs = durationMs
          /\ slice.timeScale = 1
    /\ Len(getLayouts') = 1
    /\ getLayouts'[1].startTime = 0
    /\ getLayouts'[1].endTime = 2 * durationMs
    /\ getLayouts'[1].type = "screen-with-camera"

\* C18: initializeFromRecording(durationMs) on a project without scenes
\* inserts one scene with one slice [0, durationMs) at timeScale 1 on each
\* track and one screen-with-camera layout [0, durationMs), so that S1, S2, L
\* and T hold; once a scene exists the call changes nothing.
C18_InitFromRecording ==
    [][\A d \in InitDurations :
          initializeFromRecording(d) =>
             IF scenes = <<>>
             THEN /\ defaultSceneInserted(d)
                  /\ C3_SlicesValid'
                  /\ layoutsS2(getLayouts', totalOutputDuration')
                  /\ linkedDurations'
             ELSE UNCHANGED vars]_vars

----------------------------------------------------------------------------
(* utils/layoutUtils.ts: calculateScreenWithCamera *)

\* Lengths are whole pixels.  cameraSize and the two coordinates of
\* cameraPosition are given in hundredths (20 stands for 0.2); the viewports
\* and fractions drawn make every product and quotient a whole number.
padding == 16

calculateScreenWithCamera(containerWidth, containerHeight, cameraSize, cameraPosition) ==
    LET cameraWidth == (containerWidth * cameraSize) \div 100
        \* cameraWidth / CAMERA_ASPECT_RATIO, CAMERA_ASPECT_RATIO = 16 / 9
        cameraHeight == (cameraWidth * 9) \div 16
        cameraX == (cameraPosition.x * containerWidth) \div 100 - cameraWidth \div 2
        cameraY == (cameraPosition.y * containerHeight) \div 100 - cameraHeight \div 2
    IN  [screen |-> [x |-> 0, y |-> 0, width |-> containerWidth,
                     height |-> containerHeight, visible |-> TRUE],
         camera |-> [x |-> Max2(padding, Min2(containerWidth - cameraWidth - padding, cameraX)),
                     y |-> Max2(padding, Min2(containerHeight - cameraHeight - padding, cameraY)),
                     width |-> cameraWidth, height |-> cameraHeight, visible |-> TRUE],
         layoutType |-> "screen-with-camera"]

\* viewports W x H of the preview, in pixels
Viewports == {<<640, 360>>, <<1920, 1080>>, <<1920, 1200>>}
\* cameraSize in hundredths: 0.05, 0.2, 0.5, 0.9, 1
CameraSizes == {5, 20, 50, 90, 100}
\* coordinates of cameraPosition in hundredths
CameraCoordinates == {0, 10, 50, 90, 100}

InitCameraRect ==
    /\ project = "null"
    /\ scenes = <<>>
    /\ activeSceneIndex = 0
    /\ autoSaveTimeout = "null"
    /\ nextId = 1
    /\ opCount = [op \in Ops |-> 0]
    /\ currentTimeMs = 0
    /\ totalDurationMs = 0
    /\ isPlaying = FALSE
    /\ videoTime = 0
    /\ auxInit
    /\ result = NoResult
    /\ \E v \in Viewports, size \in CameraSizes,
          px \in CameraCoordinates, py \in CameraCoordinates :
          args = [fn |-> "calculateScreenWithCamera",
                  containerWidth |-> v[1], containerHeight |-> v[2],
                  cameraSize |-> size, cameraPosition |-> [x |-> px, y |-> py]]

callCalculateScreenWithCamera ==
    /\ args.fn = "calculateScreenWithCamera"
    /\ result = NoResult
    /\ result' = calculateScreenWithCamera(args.containerWidth, args.containerHeight,
                                           args.cameraSize, args.cameraPosition)
    /\ UNCHANGED <<args, projectVars, playbackVars, mediaVars, storeVars>>

NextCameraRect == callCalculateScreenWithCamera

SpecCameraRect == InitCameraRect /\ [][NextCameraRect]_vars

\* C19: for screen-with-camera, any cameraSize in (0, 1], any cameraPosition
\* in [0,1] x [0,1] and any viewport, the screen rectangle fills the viewport
\* and the camera rectangle lies inside the viewport inset by the padding.
C19_CameraInsidePadding ==
    returned("calculateScreenWithCamera") =>
        /\ result.screen = [x |-> 0, y |-> 0, width |-> args.containerWidth,
                            height |-> args.containerHeight, visible |-> TRUE]
        /\ padding <= result.camera.x
        /\ result.camera.x + result.camera.width <= args.containerWidth - padding
        /\ padding <= result.camera.y
        /\ result.camera.y + result.camera.height <= args.containerHeight - padding

----------------------------------------------------------------------------
(* Playback with the media elements: webcam, microphone audio, cursor *)

MaxMediaEdits == 2

MediaSplitTimes == {1200}
MediaSeekTimes == {0, 1600}
MediaAdvances == {500}
\* durations of the microphone audio in half-ms: shorter and longer than the video
AudioDurations == {1400, 2400}

mediaEdits ==
    opCount["splitAllTracksAt"] + opCount["reorderSlices"] + opCount["updateSlice"]

NextMedia ==
    \/ \E d \in RecordingDurations : initializeFromRecording(d)
    \/ \E ad \in AudioDurations : handleMicAudioLoaded(ad)
    \/ \E t \in MediaSplitTimes :
          /\ mediaEdits < MaxMediaEdits
          /\ splitAllTracksAt(activeSceneIndex, t)
    \/ /\ mediaEdits < MaxMediaEdits
       /\ Len(getScreenSlices) > 1
       /\ reorderSlices(activeSceneIndex, "screen", 0, 1)
    \/ /\ mediaEdits < MaxMediaEdits
       /\ trimStartDrag("camera", 0, 250)
    \/ \E t \in MediaSeekTimes : seekTo(t)
    \/ \E dir \in {"forward", "back"}, fps \in FrameRates : handleFrameStep(dir, fps)
    \/ handlePlayPause
    \/ \E a \in MediaAdvances : handleVideoTimeUpdate(a)
    \/ handleVideoEnded
    \/ onSeeked
    \/ animate

SpecMedia == Init /\ [][NextMedia]_vars

\* C21: at every output time t the webcam video is positioned at the camera
\* track's source time outputTimeToSource(cameraSlices, t).sourceTimeMs and
\* the screen video at outputTimeToSource(screenSlices, t).sourceTimeMs, also
\* when per-track trims make the two tracks differ.  Checked while playback
\* is paused, up to the 100 ms within which the elements are left alone.
C21_TracksAtOwnSourceTime ==
    (~isPlaying /\ Len(getScreenSlices) > 0 /\ Len(getCameraSlices) > 0) =>
        /\ Abs(videoTime - outputTimeToSource(getScreenSlices, currentTimeMs).sourceTimeMs) <= 200
        /\ Abs(webcamTime - outputTimeToSource(getCameraSlices, currentTimeMs).sourceTimeMs) <= 200

\* C22: during playback, when the video reaches or passes the sourceEndMs
\* of the current slice: if a next slice exists the video is sought to its
\* sourceStartMs and playback continues in slice_index + 1, no further into
\* the slice than the time played past the boundary, so that no slice is
\* skipped; if no next slice exists playback pauses.
C22_AdvanceInOrder ==
    [][\A a \in MediaAdvances :
          LET videoSourceTime == videoClamp(videoTime + a)
              next == getScreenSlices[Pos(sliceIndex + 1)]
          IN  /\ (handleVideoTimeUpdate(a) /\ advancesSlice(videoSourceTime)) =>
                    /\ isPlaying'
                    /\ sliceIndex' = sliceIndex + 1
                    /\ videoTime' >= 2 * next.sourceStartMs
                    /\ videoTime' - 2 * next.sourceStartMs <=
                          videoSourceTime - 2 * getScreenSlices[Pos(sliceIndex)].sourceEndMs
              /\ (handleVideoTimeUpdate(a) /\ endsPlayback(videoSourceTime)) =>
                    ~isPlaying']_vars

\* a frame of the animation loop that produces a smoothed position
animateProduces == animate /\ findCursorAtTime(mouseMoves, videoTime) # <<>>

\* C23: whenever playback advances from one slice to the next, the cursor
\* smoother is reset before the next smoothed cursor position is produced.
C23_ResetBeforeNextPosition == [][animateProduces => ~sliceAdvanced]_vars

\* the cursor position at the source time of output time t
cursorAtOutputTime(t) ==
    [x |-> findCursorAtTimeInterpolated(mouseMoves,
              outputTimeToSource(getScreenSlices, t).sourceTimeMs)[1].x]

\* C24: on every explicit seek (timeline click, playhead drag, keyboard
\* seek, frame step), playing or paused and for every target time including
\* times before the first mouse sample, the cursor smoother is reset to the
\* cursor position at the target source time.
C24_SeekResetsSmoother ==
    [][/\ \A st \in MediaSeekTimes :
             (Len(getScreenSlices) > 0 /\ seekTo(st)) =>
                smoother' = cursorAtOutputTime(Max2(0, Min2(st, totalDurationMs)))
       /\ \A dir \in {"forward", "back"}, fps \in FrameRates :
             (Len(getScreenSlices) > 0 /\ handleFrameStep(dir, fps)) =>
                smoother' = cursorAtOutputTime(
                               Max2(0, Min2(totalDurationMs,
                                   currentTimeMs + (IF dir = "forward" THEN 2000 \div fps
                                                    ELSE -(2000 \div fps)))))]_vars

\* the audio is positioned: playback starts, or the seek of the video
\* (explicit, or to the next slice) has completed
audioPositioned ==
    /\ micDuration > 0
    /\ onSeeked \/ (handlePlayPause /\ ~isPlaying /\ ~seekedPending')

\* C25: Delta_audio = max(0, video_duration - audio_duration), and whenever
\* the audio is positioned for video source time T (on play, after a seek,
\* after advancing to the next slice) it ends up within 20 ms of
\* max(0, T - Delta_audio).
C25_AudioOffsetApplied ==
    [][/\ micDuration' > 0 =>
             micAudioOffset' = Max2(0, videoDurationMs - micDuration')
       /\ audioPositioned =>
             Abs(micTime' - Max2(0, videoTime' - micAudioOffset')) <= 40]_vars

\* the video was sought to 800 ms with an audio track that is 300 ms
\* shorter, and the completed seek has left the audio at 500 ms
C25_Witness ==
    /\ micDuration = 1400
    /\ micAudioOffset = 600
    /\ ~seekedPending
    /\ ~isPlaying
    /\ videoTime = 1600
    /\ micTime = 1000

----------------------------------------------------------------------------
(* utils/layoutUtils.ts: the layout rendered at the playhead *)

\* the for loop of findLayoutAtTime from 0-based position i; null is the
\* empty sequence, a layout l is <<l>>
RECURSIVE findLayoutFrom(_, _, _)
findLayoutFrom(layouts, outputTimeMs, i) ==
    IF i >= Len(layouts) THEN <<>>
    ELSE LET layout == layouts[Pos(i)]
         IN  IF outputTimeMs >= layout.startTime /\ outputTimeMs < layout.endTime
             THEN <<layout>>
             ELSE findLayoutFrom(layouts, outputTimeMs, i + 1)

findLayoutAtTime(layouts, outputTimeMs) == findLayoutFrom(layouts, outputTimeMs, 0)

\* useMemo of EditorView, handed to WebcamOverlay
currentLayout == findLayoutAtTime(getLayouts, currentTimeMs)

\* calculateLayoutPositions(currentLayout ?? null, ...): the layout whose
\* positions are rendered; without a layout the built-in
\* screen-with-camera layout is used
renderedLayout(layout) ==
    IF layout = <<>>
    THEN [builtin |-> TRUE, type |-> "screen-with-camera"]
    ELSE [builtin |-> FALSE, type |-> layout[1].type, id |-> layout[1].id]

\* C26: whenever the layouts satisfy S2, the layout resolved for rendering
\* at a published output time in [0, total_output_duration], the total
\* included, is a layout of the scene (the last one at the total); the
\* built-in default layout is never substituted.
C26_LayoutResolved ==
    (/\ scenes # <<>>
     /\ layoutsS2(getLayouts, totalOutputDuration)
     /\ currentTimeMs >= 0 /\ currentTimeMs <= totalOutputDuration) =>
        /\ ~renderedLayout(currentLayout).builtin
        /\ \E i \in 1..Len(getLayouts) : getLayouts[i].id = renderedLayout(currentLayout).id
        /\ currentTimeMs = totalOutputDuration =>
              renderedLayout(currentLayout).id = getLayouts[Len(getLayouts)].id

----------------------------------------------------------------------------
(* stores/projectStore.ts: opening, closing and the debounced auto-save *)

\* mutations of one editing session
MaxSaveEdits == 3
\* new sourceEndMs values written by updateSlice, in ms
SaveEnds == {600, 800}

\* openProjectFromPath: the project read by open_project has one scene whose
\* slices cover the recording; the store gets the project and its path
openProjectFromPath(durationMs) ==
    /\ project = "null"
    /\ nextId = 1
    /\ project' = "loaded"
    /\ scenes' = << [screenSlices |-> <<createDefaultSlice(nextId, durationMs)>>,
                     cameraSlices |-> <<createDefaultSlice(nextId + 1, durationMs)>>,
                     layouts |-> << [id |-> nextId + 2, startTime |-> 0,
                                     endTime |-> 2 * durationMs,
                                     type |-> "screen-with-camera"] >>] >>
    /\ projectPath' = "path"
    /\ activeSceneIndex' = 0
    /\ nextId' = nextId + 3
    /\ UNCHANGED <<autoSaveTimeout, opCount, timers, cleared>>
    /\ slicesEffect
    /\ UNCHANGED <<callVars, storeVars>>

\* closeProject -> _resetState: clears the pending timer, then resets the store
closeProject ==
    /\ timers' = IF autoSaveTimeout # "null" THEN timers \ {version} ELSE timers
    /\ cleared' = IF autoSaveTimeout # "null" /\ version \in timers
                  THEN cleared \cup {version} ELSE cleared
    /\ autoSaveTimeout' = "null"
    /\ project' = "null"
    /\ scenes' = <<>>
    /\ projectPath' = "null"
    /\ activeSceneIndex' = 0
    /\ UNCHANGED <<nextId, opCount>>
    /\ slicesEffect
    /\ UNCHANGED <<callVars, storeVars>>

\* one invoke() call as the backend receives it
invocation(cmd, id) ==
    [cmd |-> cmd, timer |-> id, version |-> version,
     project |-> IF cmd = "update_project" THEN scenes ELSE <<>>]

\* the timer callback up to its first await: reads the store, returns without
\* a project or a path, else issues update_project with the project
autoSaveFire(id) ==
    /\ id \in timers
    /\ timers' = timers \ {id}
    /\ IF project = "null" \/ projectPath = "null"
       THEN UNCHANGED <<tasks, invoked>>
       ELSE /\ tasks' = tasks \cup {[timer |-> id, awaiting |-> "update_project"]}
            /\ invoked' = Append(invoked, invocation("update_project", id))
    /\ UNCHANGED <<project, scenes, activeSceneIndex, autoSaveTimeout, nextId, opCount,
                   projectPath, cleared>>
    /\ UNCHANGED <<playbackVars, callVars, mediaVars, selectionVars, waveformVars>>

\* update_project resolves: the callback goes on to issue auto_save_project
updateProjectResolved(id) ==
    /\ [timer |-> id, awaiting |-> "update_project"] \in tasks
    /\ tasks' = (tasks \ {[timer |-> id, awaiting |-> "update_project"]})
                  \cup {[timer |-> id, awaiting |-> "auto_save_project"]}
    /\ invoked' = Append(invoked, invocation("auto_save_project", id))
    /\ UNCHANGED <<projectVars, playbackVars, callVars, mediaVars, selectionVars,
                   waveformVars>>

\* auto_save_project resolves: the callback logs and ends
autoSaveProjectResolved(id) ==
    /\ [timer |-> id, awaiting |-> "auto_save_project"] \in tasks
    /\ tasks' = tasks \ {[timer |-> id, awaiting |-> "auto_save_project"]}
    /\ UNCHANGED invoked
    /\ UNCHANGED <<projectVars, playbackVars, callVars, mediaVars, selectionVars,
                   waveformVars>>

TimerIds == 1..(MaxSaveEdits + 1)

NextAutoSave ==
    \/ \E d \in RecordingDurations : openProjectFromPath(d)
    \/ \E id \in sliceIds, v \in SaveEnds :
          /\ version < MaxSaveEdits
          /\ updateSlice(activeSceneIndex, "screen", id, "sourceEndMs", v)
    \/ \E id \in TimerIds : autoSaveFire(id)
    \/ \E id \in TimerIds : updateProjectResolved(id)
    \/ \E id \in TimerIds : autoSaveProjectResolved(id)
    \/ closeProject

SpecAutoSave == Init /\ [][NextAutoSave]_vars

\* a scheduled timer fires after its delay and a backend call returns
SpecAutoSaveFair ==
    /\ SpecAutoSave
    /\ WF_vars(\E id \in TimerIds : autoSaveFire(id))
    /\ WF_vars(\E id \in TimerIds : updateProjectResolved(id))
    /\ WF_vars(\E id \in TimerIds : autoSaveProjectResolved(id))

\* the backend has received update_project with the current project, sent by
\* the timer of the latest mutation, and then auto_save_project of that callback
savedLatest ==
    \E i \in 1..Len(invoked), j \in 1..Len(invoked) :
        /\ i < j
        /\ invoked[i].cmd = "update_project"
        /\ invoked[i].timer = version
        /\ invoked[i].project = scenes
        /\ invoked[j].cmd = "auto_save_project"
        /\ invoked[j].timer = invoked[i].timer

\* no update_project was sent by a timer other than that of the latest mutation
noSupersededSent ==
    \A i \in 1..Len(invoked) :
        /\ invoked[i].timer \notin cleared
        /\ invoked[i].cmd = "update_project" => invoked[i].timer = invoked[i].version

C28_NoSaveAfterClose ==
    [][Len(invoked') > Len(invoked) => project = "loaded"]_vars

----------------------------------------------------------------------------
(* stores/waveformStore.ts: the waveform cache *)

\* get_waveform requests awaiting the backend for one path
MaxRequests == 2

\* fetchWaveform up to its await: returns the cached data, returns null while
\* the path is loading, else marks the path loading and invokes get_waveform
fetchWaveform(audioPath) ==
    IF cache[audioPath] THEN UNCHANGED vars
    ELSE IF loading[audioPath] THEN UNCHANGED vars
    ELSE /\ loading' = [loading EXCEPT ![audioPath] = TRUE]
         /\ errors' = [errors EXCEPT ![audioPath] = "null"]
         /\ inflight' = [inflight EXCEPT ![audioPath] = @ + 1]
         /\ UNCHANGED cache
         /\ UNCHANGED <<projectVars, playbackVars, callVars, mediaVars, selectionVars,
                        saveVars>>

\* get_waveform resolves: the data is cached and the path no longer loading
getWaveformResolved(audioPath) ==
    /\ inflight[audioPath] > 0
    /\ inflight' = [inflight EXCEPT ![audioPath] = @ - 1]
    /\ cache' = [cache EXCEPT ![audioPath] = TRUE]
    /\ loading' = [loading EXCEPT ![audioPath] = FALSE]
    /\ UNCHANGED errors
    /\ UNCHANGED <<projectVars, playbackVars, callVars, mediaVars, selectionVars,
                   saveVars>>

\* get_waveform rejects: the message is stored and the path no longer loading
getWaveformRejected(audioPath) ==
    /\ inflight[audioPath] > 0
    /\ inflight' = [inflight EXCEPT ![audioPath] = @ - 1]
    /\ loading' = [loading EXCEPT ![audioPath] = FALSE]
    /\ errors' = [errors EXCEPT ![audioPath] = "error"]
    /\ UNCHANGED cache
    /\ UNCHANGED <<projectVars, playbackVars, callVars, mediaVars, selectionVars,
                   saveVars>>

\* clearCache: set({ cache: {}, loading: {}, errors: {} })
clearCache ==
    /\ cache' = [p \in AudioPaths |-> FALSE]
    /\ loading' = [p \in AudioPaths |-> FALSE]
    /\ errors' = [p \in AudioPaths |-> "undefined"]
    /\ UNCHANGED inflight
    /\ UNCHANGED <<projectVars, playbackVars, callVars, mediaVars, selectionVars,
                   saveVars>>

NextWaveform ==
    \/ \E p \in AudioPaths :
          /\ inflight[p] < MaxRequests
          /\ fetchWaveform(p)
    \/ \E p \in AudioPaths : getWaveformResolved(p)
    \/ \E p \in AudioPaths : getWaveformRejected(p)
    \/ clearCache

SpecWaveform == Init /\ [][NextWaveform]_vars

\* C29: for each audio path at most one get_waveform request is in flight at
\* any time, under any interleaving of fetchWaveform calls, completions,
\* failures and clearCache, and a request that completes or fails leaves
\* loading[path] false.
C29_OneRequestInFlight ==
    [][\A p \in AudioPaths :
          /\ inflight'[p] <= 1
          /\ inflight'[p] < inflight[p] => ~loading'[p]]_vars

----------------------------------------------------------------------------
(* stores/editorStore.ts and the Delete key: the selected slice *)

\* splits and removals of one editing session
MaxSelectionEdits == 3
\* split times in half-ms: 300 ms, 600 ms and 800 ms
SelectionSplitTimes == {600, 1200, 1600}

selectionEdits == opCount["splitAllTracksAt"] + opCount["removeSlice"]

\* selectSlice(id): clears the layout selection
selectSlice(id) ==
    /\ selectedSliceId' = id
    /\ selectedLayoutId' = Null
    /\ UNCHANGED <<projectVars, playbackVars, callVars, mediaVars, saveVars, waveformVars>>

\* Delete / Backspace: removes the selected slice while the screen track has
\* more than one slice
handleDeleteKey ==
    IF selectedSliceId # Null /\ Len(getScreenSlices) > 1
    THEN removeSlice(activeSceneIndex, selectedSliceId[1])
    ELSE UNCHANGED vars

NextSelection ==
    \/ \E d \in RecordingDurations : initializeFromRecording(d)
    \/ \E id \in sliceIds : selectSlice(<<id>>)
    \/ \E t \in SelectionSplitTimes :
          /\ selectionEdits < MaxSelectionEdits
          /\ splitAllTracksAt(activeSceneIndex, t)
    \/ /\ selectionEdits < MaxSelectionEdits
       /\ handleDeleteKey

SpecSelection == Init /\ [][NextSelection]_vars

\* C30: whenever selectedSliceId is non-null it identifies a slice that
\* exists in the active scene, after any sequence of selectSlice,
\* splitAllTracksAt and removeSlice.
C30_SelectionExists ==
    selectedSliceId # Null => selectedSliceId[1] \in sliceIds

====
